---- MODULE Spec2Model ----
(***************************************************************************)
(* Session-coordination layer of the multiplayer chess server             *)
(* (server.js: the socket.io handlers username, createRoom, joinRoom,     *)
(* move, disconnect and closeRoom over the `rooms` Map and the transport   *)
(* groups of socket.io).                                                   *)
(*                                                                         *)
(* An async handler is split at its `await`: the part before the await is  *)
(* one action (...Begin), the continuation another (...Resume).  Spec is   *)
(* the server as server.js builds it, on socket.io's in-memory adapter:    *)
(* socket.join and fetchSockets are settled when they return, so the       *)
(* continuation is a microtask that runs before the next socket's event is *)
(* dispatched.  SpecAwait is the same handlers on an adapter whose join    *)
(* settles later: other handlers run between the two parts.                *)
(***************************************************************************)
EXTENDS Integers, Sequences, FiniteSets, TLC

\* ---------------------------------------------------------------- bounds
MaxSeats == 3       \* participants recorded in the store, over all rooms
MaxSuspended == 2   \* handlers suspended at an await at one time (SpecAwait)
MaxPly == 3         \* half-moves played on the board of a tab (SpecApp)
MaxInbox == 3       \* messages sent to the tabs and not yet handled (SpecApp)

Conns == {1, 2, 3}           \* socket ids of the connections of a run
Names == {"ann"}             \* payloads of the username event
Namers == {1}                \* the connections that send a username event
Moves == {"e4"}                \* payloads data.move
Undefined == "undefined"     \* socket.data?.username before any username event
BogusRoom == 0               \* a room id that uuidV4 never returned
RoomIds == {1, 2}            \* the ids uuidV4 returns in a run, in this order
GroupIds == {BogusRoom} \cup RoomIds
\* the connections still open when a run of SpecAwait starts (the others have
\* come and gone without sending an event)
AwaitConns == {1, 2}
\* the ids uuidV4 returns in a run of SpecApp: the tabs start one game
AppRoomIds == {1}

VARIABLES
  sock,      \* sock[c]: "connected" | "disconnected"
  username,  \* username[c]: socket.data.username
  rooms,     \* the Map `rooms`, in insertion order: <<[key, val]>>
  group,     \* group[r]: the sockets in socket.io's room r (socket.join/leave)
  nextId,    \* the next id uuidV4 returns
  issued,    \* the ids uuidV4 has returned so far
  known,     \* the room ids a createRoom callback has handed to a client
  pend,      \* pend[c]: the handler of c suspended at its await
  adapter,   \* "memory": awaits settle at once; "remote": they settle later
  last,      \* the handler step taken last
  resp,      \* what that step passed to the client's callback
  out,       \* what that step emitted, in order
  threw,     \* that step ended in a TypeError (callback is not a function); the
             \* rejection is unhandled, and a run in which the process ends on it
             \* is a prefix of one in which it goes on
  seen,      \* the participants the Map held for the room at the moment that
             \* step emitted opponentJoined
  tab,       \* tab[c]: the state of the App component in the browser tab of c
  game,      \* game[c]: the half-moves played on the chess.js game of that tab
  inbox      \* inbox[c]: what the server sent to c and c has not handled yet

vars == <<sock, username, rooms, group, nextId, issued, known, pend, adapter, last, resp, out,
          threw, seen, tab, game, inbox>>

\* ------------------------------------------------------------ JS values
\* a JS number or undefined, as the relational operators see it
JSUndefined == [def |-> FALSE, num |-> 0]
Num(n) == [def |-> TRUE, num |-> n]
\* a <= b, a >= b: false when either side is undefined (NaN)
JSLte(a, b) == a.def /\ b.def /\ a.num <= b.num
JSGte(a, b) == a.def /\ b.def /\ a.num >= b.num

NoPlayer == [id |-> 0, username |-> Undefined]
NoRoom == [roomId |-> -1, players |-> <<>>]      \* rooms.get of a missing key

\* the participant recorded without the name the socket has
PlayerNoName(c) == [id |-> c, username |-> Undefined]

\* { id: socket.id, username: socket.data?.username }
Player(c) == [id |-> c, username |-> username[c]]

\* ------------------------------------------------------------ the Map
MapHas(m, k) == \E i \in 1..Len(m) : m[i].key = k
MapGet(m, k) ==
  IF MapHas(m, k) THEN m[CHOOSE i \in 1..Len(m) : m[i].key = k].val ELSE NoRoom
MapSet(m, k, v) ==
  IF MapHas(m, k)
  THEN [i \in 1..Len(m) |-> IF m[i].key = k THEN [key |-> k, val |-> v] ELSE m[i]]
  ELSE Append(m, [key |-> k, val |-> v])
MapDelete(m, k) == SelectSeq(m, LAMBDA e : e.key # k)
MapValues(m) == [i \in 1..Len(m) |-> m[i].val]
\* the values of m whose key m2 no longer has
MapRemoved(m, m2) == {m[i].val : i \in {j \in 1..Len(m) : ~MapHas(m2, m[j].key)}}

\* ------------------------------------------------------- the transport
\* io.to(r) in place of socket.to(r): the emitting socket is not left out
IoTo(c, r) == group[r]

\* socket.to(r): every socket in room r except the emitting one
SocketTo(c, r) == group[r] \ {c}

\* the fetched sockets are not made to leave
LeaveNone(grp, r, clientSockets) == grp

\* clientSockets.forEach((s) => s.leave(r))
Leave(grp, r, clientSockets) == [grp EXCEPT ![r] = @ \ clientSockets]

NoPend == [op |-> "none", roomId |-> 0, cb |-> FALSE, room |-> NoRoom, fetched |-> {}]
NoResp == [kind |-> "none", to |-> 0, error |-> FALSE, message |-> "",
           roomId |-> 0, players |-> <<>>]
\* callback({ error, message })
ErrorResp(c, message) ==
  [NoResp EXCEPT !.kind = "error", !.to = c, !.error = TRUE, !.message = message]
\* the participants' socket ids, and those of a set whose socket is still open
ParticipantIds(room) == {room.players[i].id : i \in 1..Len(room.players)}
Emit(event, r, to, roomId, players, move, player) ==
  [event |-> event, room |-> r, to |-> to, roomId |-> roomId,
   players |-> players, move |-> move, player |-> player]
\* a handler step: the event, the socket, the room id and move it names, whether
\* it came with a callback, and the entries the step removed from the Map
Step(op, c, r, cb, m, del) ==
  [op |-> op, conn |-> c, roomId |-> r, cb |-> cb, move |-> m, deleted |-> del]
\* the room ids a client can name: those it was told, or one that never existed
RoomArgs == known \cup {BogusRoom}

\* the participants recorded in the store plus those a suspended createRoom or
\* joinRoom is about to record
RECURSIVE SeatsIn(_)
SeatsIn(m) == IF m = <<>> THEN 0 ELSE Len(Head(m).val.players) + SeatsIn(Tail(m))
Seats == SeatsIn(rooms) + Cardinality({c \in Conns : pend[c].op \in {"createRoom", "joinRoom"}})

Live(S) == {c \in S : sock[c] = "connected"}

\* no handler is suspended at an await
Idle == \A c \in Conns : pend[c] = NoPend
Suspended == {c \in Conns : pend[c] # NoPend}
\* the next event is dispatched: on the in-memory adapter only once the
\* continuations (microtasks) of the handler before it have run
CanDispatch ==
  IF adapter = "memory" THEN Idle ELSE Cardinality(Suspended) < MaxSuspended

\* a JS value held in the `players` state of App: an array, or the object
\* {roomId, players}
JSArray(a) == [isArray |-> TRUE, roomId |-> 0, players |-> a]
JSObject(roomId, players) == [isArray |-> FALSE, roomId |-> roomId, players |-> players]
\* value.length
Length(value) == IF value.isArray THEN Num(Len(value.players)) ELSE JSUndefined

\* useState(""), useState(""), useState([]), useState(false) of App
EmptyRoom == -1
NoTab == [room |-> EmptyRoom, orientation |-> "", players |-> JSArray(<<>>),
          usernameGiven |-> FALSE]
\* CustomDialog "Pick a username" after handleClose: setUsernameGiven(true),
\* no username sent
DialogClosed == [NoTab EXCEPT !.usernameGiven = TRUE]

Init ==
  /\ adapter \in {"memory", "remote"}
  /\ sock = [c \in Conns |-> IF adapter = "memory" \/ c \in AwaitConns
                                THEN "connected" ELSE "disconnected"]
  /\ username = [c \in Conns |-> Undefined]
  /\ rooms = <<>>
  /\ group = [r \in GroupIds |-> {}]
  /\ nextId = 1
  /\ issued = {}
  /\ known = {}
  /\ pend = [c \in Conns |-> NoPend]
  /\ last = Step("init", 0, 0, FALSE, "", {})
  /\ resp = NoResp
  /\ out = <<>>
  /\ threw = FALSE
  /\ seen = <<>>
  /\ tab \in {[c \in Conns |-> NoTab], [c \in Conns |-> DialogClosed]}
  /\ game = [c \in Conns |-> 0]
  /\ inbox = [c \in Conns |-> <<>>]

\* the username event also renaming the sender in the entries of the store
UsernameInStore(c, n) ==
  /\ CanDispatch
  /\ sock[c] = "connected"
  /\ username' = [username EXCEPT ![c] = n]
  /\ rooms' = [i \in 1..Len(rooms) |->
                [rooms[i] EXCEPT !.val.players =
                   [j \in 1..Len(@) |-> IF @[j].id = c THEN [@[j] EXCEPT !.username = n]
                                                       ELSE @[j]]]]
  /\ last' = Step("username", c, 0, FALSE, "", {})
  /\ resp' = NoResp /\ out' = <<>> /\ threw' = FALSE /\ seen' = <<>>
  /\ UNCHANGED <<sock, group, nextId, issued, known, pend, adapter>>

\* socket.on('username')
Username(c, n) ==
  /\ CanDispatch
  /\ sock[c] = "connected"
  /\ username' = [username EXCEPT ![c] = n]
  /\ last' = Step("username", c, 0, FALSE, "", {})
  /\ resp' = NoResp /\ out' = <<>> /\ threw' = FALSE /\ seen' = <<>>
  /\ UNCHANGED <<sock, rooms, group, nextId, issued, known, pend, adapter>>

\* uuidV4 returning the id it returned before
SameUuid(id) == id

\* uuidV4(): an id that no earlier call has returned
NextUuid(id) == id + 1

\* socket.on('createRoom'), up to `await socket.join(roomId)`
CreateRoomBegin(c, cb) ==
  /\ CanDispatch
  /\ sock[c] = "connected"
  /\ pend[c] = NoPend
  /\ nextId \in RoomIds
  /\ Seats < MaxSeats
  /\ LET roomId == nextId IN
       /\ nextId' = NextUuid(nextId)
       /\ issued' = issued \cup {roomId}
       /\ group' = [group EXCEPT ![roomId] = @ \cup {c}]
       /\ pend' = [pend EXCEPT ![c] = [NoPend EXCEPT !.op = "createRoom",
                                        !.roomId = roomId, !.cb = cb]]
       /\ last' = Step("createRoom", c, roomId, cb, "", {})
  /\ resp' = NoResp /\ out' = <<>> /\ threw' = FALSE /\ seen' = <<>>
  /\ UNCHANGED <<sock, username, rooms, known, adapter>>

\* socket.on('createRoom'), after the await
CreateRoomResume(c) ==
  /\ pend[c].op = "createRoom"
  /\ LET roomId == pend[c].roomId
         cb == pend[c].cb IN
       /\ rooms' = MapSet(rooms, roomId, [roomId |-> roomId, players |-> <<Player(c)>>])
       /\ resp' = IF cb THEN [NoResp EXCEPT !.kind = "roomId", !.to = c, !.roomId = roomId]
                        ELSE NoResp
       /\ known' = IF cb THEN known \cup {roomId} ELSE known
       /\ threw' = ~cb
       /\ last' = Step("createRoomDone", c, roomId, cb, "", {})
  /\ pend' = [pend EXCEPT ![c] = NoPend]
  /\ out' = <<>> /\ seen' = <<>>
  /\ UNCHANGED <<sock, username, group, nextId, issued, adapter>>

\* lines 51-60: the validation of joinRoom.  `room` is the object
\* {roomId, players}: it has no `length`, so room.length is undefined.
RoomLength(room) == JSUndefined

\* JoinCheck with the messages of its first two branches exchanged
JoinCheckSwapped(room) ==
  IF room = NoRoom THEN [error |-> TRUE, message |-> "room is empty"]
  ELSE IF JSLte(RoomLength(room), Num(0))
    THEN [error |-> TRUE, message |-> "room does not exist"]
  ELSE IF JSGte(RoomLength(room), Num(2)) THEN [error |-> TRUE, message |-> "room is full"]
  ELSE [error |-> FALSE, message |-> ""]

\* let error, message; if (!room) ... else if (room.length <= 0) ... else if
\* (room.length >= 2) ...
JoinCheck(room) ==
  IF room = NoRoom THEN [error |-> TRUE, message |-> "room does not exist"]
  ELSE IF JSLte(RoomLength(room), Num(0)) THEN [error |-> TRUE, message |-> "room is empty"]
  ELSE IF JSGte(RoomLength(room), Num(2)) THEN [error |-> TRUE, message |-> "room is full"]
  ELSE [error |-> FALSE, message |-> ""]

\* joinRoom with socket.join placed ahead of the validation: the socket is in
\* the group of the roomId it names even when the join is refused
JoinRoomBeginJoinsFirst(c, r, cb) ==
  /\ CanDispatch
  /\ sock[c] = "connected"
  /\ pend[c] = NoPend
  /\ group' = [group EXCEPT ![r] = @ \cup {c}]
  /\ LET room == MapGet(rooms, r)
         chk == JoinCheck(room) IN
       IF chk.error
       THEN /\ resp' = IF cb THEN ErrorResp(c, chk.message) ELSE NoResp
            /\ UNCHANGED pend
       ELSE /\ Seats < MaxSeats
            /\ pend' = [pend EXCEPT ![c] = [NoPend EXCEPT !.op = "joinRoom",
                                             !.roomId = r, !.cb = cb, !.room = room]]
            /\ resp' = NoResp
  /\ last' = Step("joinRoom", c, r, cb, "", {})
  /\ out' = <<>> /\ threw' = FALSE /\ seen' = <<>>
  /\ UNCHANGED <<sock, username, rooms, nextId, issued, known, adapter>>

\* socket.on('joinRoom'), up to the return of the error branch or to
\* `await socket.join(args.roomId)`
JoinRoomBegin(c, r, cb) ==
  /\ CanDispatch
  /\ sock[c] = "connected"
  /\ pend[c] = NoPend
  /\ LET room == MapGet(rooms, r)
         chk == JoinCheck(room) IN
       IF chk.error
       THEN /\ resp' = IF cb THEN ErrorResp(c, chk.message) ELSE NoResp
            /\ UNCHANGED <<group, pend, adapter>>
       ELSE /\ Seats < MaxSeats
            /\ group' = [group EXCEPT ![r] = @ \cup {c}]
            /\ pend' = [pend EXCEPT ![c] = [NoPend EXCEPT !.op = "joinRoom",
                                             !.roomId = r, !.cb = cb, !.room = room]]
            /\ resp' = NoResp
  /\ last' = Step("joinRoom", c, r, cb, "", {})
  /\ out' = <<>> /\ threw' = FALSE /\ seen' = <<>>
  /\ UNCHANGED <<sock, username, rooms, nextId, issued, known, adapter>>

\* the emit of line 93 placed before the rooms.set of line 88
StoreBeforeSet(before, after) == before

\* the Map as socket.to(...).emit('opponentJoined') finds it: rooms.set (line
\* 88) has run
StoreAtEmit(before, after) == after

\* socket.on('joinRoom'), after the await
JoinRoomResume(c) ==
  /\ pend[c].op = "joinRoom"
  /\ LET r == pend[c].roomId
         cb == pend[c].cb
         room == pend[c].room
         roomUpdate == [roomId |-> room.roomId,
                        players |-> Append(room.players, Player(c))] IN
       /\ rooms' = MapSet(rooms, r, roomUpdate)
       /\ seen' = IF cb THEN MapGet(StoreAtEmit(rooms, MapSet(rooms, r, roomUpdate)), r).players
                        ELSE <<>>
       /\ resp' = IF cb THEN [NoResp EXCEPT !.kind = "room", !.to = c,
                               !.roomId = roomUpdate.roomId,
                               !.players = roomUpdate.players]
                        ELSE NoResp
       /\ threw' = ~cb
       /\ out' = IF cb THEN <<Emit("opponentJoined", r, SocketTo(c, r), roomUpdate.roomId,
                                   roomUpdate.players, "", NoPlayer)>>
                       ELSE <<>>
       /\ last' = Step("joinRoomDone", c, r, cb, "", {})
  /\ pend' = [pend EXCEPT ![c] = NoPend]
  /\ UNCHANGED <<sock, username, group, nextId, issued, known, adapter>>

\* socket.on('move')
Move(c, r, m) ==
  /\ CanDispatch
  /\ sock[c] = "connected"
  /\ out' = <<Emit("move", r, SocketTo(c, r), 0, <<>>, m, NoPlayer)>>
  /\ last' = Step("move", c, r, FALSE, m, {})
  /\ resp' = NoResp /\ threw' = FALSE /\ seen' = <<>>
  /\ UNCHANGED <<sock, username, rooms, group, nextId, issued, known, pend, adapter>>

\* room.players.find((player) => player.id === socket.id)
Find(players, c) ==
  IF \E i \in 1..Len(players) : players[i].id = c
  THEN players[CHOOSE i \in 1..Len(players) :
                 /\ players[i].id = c
                 /\ \A j \in 1..(i - 1) : players[j].id # c]
  ELSE NoPlayer

\* DisconnectRoom deleting the room of the leaving socket whatever its size
DisconnectRoomDeletes(room, c, st, grp) ==
  IF Find(room.players, c) # NoPlayer
  THEN [st EXCEPT !.rooms = MapDelete(st.rooms, room.roomId)]
  ELSE st

\* DisconnectRoom sending the leaving socket's present identity, not the
\* participant found in the room
DisconnectRoomPresentName(room, c, st, grp) ==
  LET userInRoom == Find(room.players, c) IN
    IF userInRoom # NoPlayer
    THEN IF Len(room.players) < 2
         THEN [st EXCEPT !.rooms = MapDelete(st.rooms, room.roomId)]
         ELSE [st EXCEPT !.out = Append(st.out,
                 Emit("playerDisconnected", room.roomId, grp[room.roomId] \ {c},
                      0, <<>>, "", Player(c)))]
    ELSE st

\* DisconnectRoom without the test of userInRoom: every room is handled as a
\* room of the leaving socket
DisconnectRoomAnyone(room, c, st, grp) ==
  IF Len(room.players) < 2
  THEN [st EXCEPT !.rooms = MapDelete(st.rooms, room.roomId)]
  ELSE [st EXCEPT !.out = Append(st.out,
          Emit("playerDisconnected", room.roomId, grp[room.roomId] \ {c},
               0, <<>>, "", Find(room.players, c)))]

\* the body of gameRooms.forEach in the disconnect handler, for one room:
\* st = [rooms, out] so far, grp = the transport groups
DisconnectRoom(room, c, st, grp) ==
  LET userInRoom == Find(room.players, c) IN
    IF userInRoom # NoPlayer
    THEN IF Len(room.players) < 2
         THEN [st EXCEPT !.rooms = MapDelete(st.rooms, room.roomId)]
         ELSE [st EXCEPT !.out = Append(st.out,
                 Emit("playerDisconnected", room.roomId, grp[room.roomId] \ {c},
                      0, <<>>, "", userInRoom))]
    ELSE st

\* the scan with `return` taken as leaving the loop: it stops at the first room
\* it deletes
RECURSIVE DisconnectScanFirst(_, _, _, _)
DisconnectScanFirst(gameRooms, c, st, grp) ==
  IF gameRooms = <<>> THEN st
  ELSE LET nxt == DisconnectRoom(Head(gameRooms), c, st, grp) IN
         IF nxt.rooms # st.rooms THEN nxt
         ELSE DisconnectScanFirst(Tail(gameRooms), c, nxt, grp)

\* gameRooms.forEach(...)
RECURSIVE DisconnectScan(_, _, _, _)
DisconnectScan(gameRooms, c, st, grp) ==
  IF gameRooms = <<>> THEN st
  ELSE DisconnectScan(Tail(gameRooms), c, DisconnectRoom(Head(gameRooms), c, st, grp), grp)

\* the transport closes socket c: socket.io takes it out of every group
\* (leaveAll), then runs socket.on("disconnect")
Disconnect(c) ==
  /\ CanDispatch
  /\ sock[c] = "connected"
  /\ sock' = [sock EXCEPT ![c] = "disconnected"]
  /\ group' = [r \in GroupIds |-> group[r] \ {c}]
  /\ LET gameRooms == MapValues(rooms)
         st == DisconnectScan(gameRooms, c, [rooms |-> rooms, out |-> <<>>], group') IN
       /\ rooms' = st.rooms
       /\ out' = st.out
       /\ last' = Step("disconnect", c, 0, FALSE, "", MapRemoved(rooms, st.rooms))
  /\ resp' = NoResp /\ threw' = FALSE /\ seen' = <<>>
  /\ UNCHANGED <<username, nextId, issued, known, pend, adapter>>

\* socket.on("closeRoom"), up to `await io.in(data.roomId).fetchSockets()`
CloseRoomBegin(c, r) ==
  /\ CanDispatch
  /\ sock[c] = "connected"
  /\ pend[c] = NoPend
  /\ out' = <<Emit("closeRoom", r, SocketTo(c, r), r, <<>>, "", NoPlayer)>>
  /\ pend' = [pend EXCEPT ![c] = [NoPend EXCEPT !.op = "closeRoom", !.roomId = r,
                                   !.fetched = group[r]]]
  /\ last' = Step("closeRoom", c, r, FALSE, "", {})
  /\ resp' = NoResp /\ threw' = FALSE /\ seen' = <<>>
  /\ UNCHANGED <<sock, username, rooms, group, nextId, issued, known, adapter>>

\* socket.on("closeRoom"), after the await
CloseRoomResume(c) ==
  /\ pend[c].op = "closeRoom"
  /\ LET r == pend[c].roomId
         clientSockets == pend[c].fetched IN
       /\ group' = Leave(group, r, clientSockets)
       /\ rooms' = MapDelete(rooms, r)
       /\ last' = Step("closeRoomDone", c, r, FALSE, "", MapRemoved(rooms, MapDelete(rooms, r)))
  /\ pend' = [pend EXCEPT ![c] = NoPend]
  /\ resp' = NoResp /\ out' = <<>> /\ threw' = FALSE /\ seen' = <<>>
  /\ UNCHANGED <<sock, username, nextId, issued, known, adapter>>

\* ----------------------------------------------------- the scheduler
\* the events come from arbitrary socket.io clients: no App state is kept and
\* what the server sends is not followed further
Raw == UNCHANGED <<tab, game, inbox>>

\* `bare` is an event sent without a callback
Next ==
  \/ \E c \in Namers, n \in Names : Username(c, n) /\ Raw
  \/ \E c \in Conns, bare \in BOOLEAN : CreateRoomBegin(c, ~bare) /\ Raw
  \/ \E c \in Conns : CreateRoomResume(c) /\ Raw
  \/ \E c \in Conns, r \in RoomArgs, bare \in BOOLEAN : JoinRoomBegin(c, r, ~bare) /\ Raw
  \/ \E c \in Conns : JoinRoomResume(c) /\ Raw
  \/ \E c \in Conns, r \in RoomArgs, m \in Moves : Move(c, r, m) /\ Raw
  \/ \E c \in Conns : Disconnect(c) /\ Raw
  \/ \E c \in Conns, r \in RoomArgs : CloseRoomBegin(c, r) /\ Raw
  \/ \E c \in Conns : CloseRoomResume(c) /\ Raw

\* ------------------------------------------------- the React client
\* The sockets are browser tabs running App, InitGame and Game.  What a tab
\* emits reaches the server at once; what the server sends to a tab waits in
\* inbox[c], in the order sent, until the tab handles it.

\* the half-moves of a game in the order they can be played: Ply[n + 1] is the
\* move object game.move returns on a board where n half-moves were played
Ply == <<"ply1", "ply2", "ply3", "ply4", "ply5">>
\* game.turn()
Turn(n) == IF n % 2 = 0 THEN "w" ELSE "b"
\* orientation[0]
FirstChar(orientation) ==
  IF orientation = "white" THEN "w" ELSE IF orientation = "black" THEN "b" ELSE Undefined

\* the events the client listens to: App has socket.on("opponentJoined"), Game
\* has socket.on("move"); an event nothing listens to is discarded on arrival
Listened == {"opponentJoined", "move"}

\* a message to a tab: the argument of its callback (event "ack") or an event
\* the server emitted, with the socket whose handler sent it
Msg(event, from, kind, roomId, players, move, error) ==
  [event |-> event, from |-> from, kind |-> kind, roomId |-> roomId,
   players |-> players, move |-> move, error |-> error]
\* what a handler step of socket `from` sends to tab c: r to its callback, the
\* events o to the sockets they are emitted to
Sent(c, from, r, o) ==
  LET mine == SelectSeq(o, LAMBDA e : c \in e.to /\ e.event \in Listened) IN
    (IF r.kind # "none" /\ r.to = c
     THEN <<Msg("ack", from, r.kind, r.roomId, r.players, "", r.error)>>
     ELSE <<>>)
    \o [i \in 1..Len(mine) |->
         Msg(mine[i].event, from, "event", mine[i].roomId, mine[i].players,
             mine[i].move, FALSE)]

\* the messages of a step put in front of those waiting
PostFront(inb, from, r, o) == [c \in Conns |-> Sent(c, from, r, o) \o inb[c]]

\* a connection delivers what is written to it in the order written
Post(inb, from, r, o) == [c \in Conns |-> inb[c] \o Sent(c, from, r, o)]

RECURSIVE Waiting(_)
Waiting(S) == IF S = {} THEN 0
              ELSE LET c == CHOOSE x \in S : TRUE IN Len(inbox[c]) + Waiting(S \ {c})
InboxRoom == Waiting(Conns) < MaxInbox
\* a server handler runs for an event a tab emitted; the tabs' state stays
Served(from) == inbox' = Post(inbox, from, resp', out')
\* a step of a tab alone: no handler of the server runs
ServerIdle ==
  /\ last' = Step("tab", 0, 0, FALSE, "", {})
  /\ resp' = NoResp /\ out' = <<>> /\ threw' = FALSE /\ seen' = <<>>
  /\ UNCHANGED <<sock, username, rooms, group, nextId, issued, known, pend, adapter>>

\* InitGame is rendered while `room` is falsy and can be used once the
\* username dialog is closed
InitGameShown(c) == tab[c].usernameGiven /\ tab[c].room = EmptyRoom
\* Game is rendered once `room` is set
GameShown(c) == tab[c].usernameGiven /\ tab[c].room # EmptyRoom

\* InitGame, button "Start a game": socket.emit("createRoom", (r) => ...)
StartGame(c) ==
  /\ InitGameShown(c)
  /\ InboxRoom
  /\ nextId \in AppRoomIds
  /\ CreateRoomBegin(c, TRUE)
  /\ Served(c)
  /\ UNCHANGED <<tab, game>>

\* InitGame, dialog "Select Room to Join", handleContinue:
\* socket.emit("joinRoom", { roomId: roomInput }, (r) => ...)
JoinGame(c, roomInput) ==
  /\ InitGameShown(c)
  /\ InboxRoom
  /\ JoinRoomBegin(c, roomInput, TRUE)
  /\ Served(c)
  /\ UNCHANGED <<tab, game>>

\* onDrop without its test of the turn
MayDropAlways(c) == TRUE

\* Game.onDrop: if (game.turn() !== orientation[0]) return null
MayDrop(c) == Turn(game[c]) = FirstChar(tab[c].orientation)

\* Game.onDrop: the move is played on the local board (makeAMove), then
\* socket.emit("move", { move, room })
OnDrop(c) ==
  /\ GameShown(c)
  /\ MayDrop(c)
  /\ game[c] < MaxPly
  /\ InboxRoom
  /\ Move(c, tab[c].room, Ply[game[c] + 1])
  /\ game' = [game EXCEPT ![c] = @ + 1]
  /\ Served(c)
  /\ UNCHANGED tab

\* the user closes the tab
CloseTab(c) ==
  /\ Disconnect(c)
  /\ tab' = [tab EXCEPT ![c] = DialogClosed]
  /\ game' = [game EXCEPT ![c] = 0]
  /\ inbox' = [Post(inbox, c, resp', out') EXCEPT ![c] = <<>>]

\* the continuations of the async handlers
CreateRoomDone(c) == CreateRoomResume(c) /\ Served(c) /\ UNCHANGED <<tab, game>>
JoinRoomDone(c) == JoinRoomResume(c) /\ Served(c) /\ UNCHANGED <<tab, game>>

\* App: socket.on("opponentJoined", (players) => { setPlayers(players) });
\* the argument is the whole payload, the object {roomId, players}
OpponentJoined(payload) == JSObject(payload.roomId, payload.players)

\* the tab handles the next message sent to it
Receive(c) ==
  /\ sock[c] = "connected"
  /\ inbox[c] # <<>>
  /\ LET r == Head(inbox[c]) IN
       /\ tab' =
            IF r.event = "ack" /\ r.kind = "roomId"
              \* createRoom callback: setRoom(r); setOrientation("white")
              THEN [tab EXCEPT ![c].room = r.roomId, ![c].orientation = "white"]
            ELSE IF r.event = "ack" /\ r.kind = "room"
              \* joinRoom callback: setRoom(r?.roomId); setPlayers(r?.players);
              \* setOrientation("black")
              THEN [tab EXCEPT ![c].room = r.roomId, ![c].players = JSArray(r.players),
                                ![c].orientation = "black"]
            ELSE IF r.event = "opponentJoined"
              THEN [tab EXCEPT ![c].players = OpponentJoined(r)]
            \* joinRoom callback with r.error: setRoomError; "move" is handled by
            \* Game
            ELSE tab
       /\ game' =
            \* Game: socket.on("move", (move) => makeAMove(move)); game.move throws
            \* on a move that is not legal on the local board
            IF r.event = "move" /\ GameShown(c) /\ r.move = Ply[game[c] + 1]
                 /\ game[c] < MaxPly
              THEN [game EXCEPT ![c] = @ + 1]
              ELSE game
  /\ inbox' = [inbox EXCEPT ![c] = Tail(@)]
  /\ ServerIdle

NextApp ==
  \/ \E c \in Conns : StartGame(c)
  \/ \E c \in Conns : CreateRoomDone(c)
  \/ \E c \in Conns, roomInput \in RoomArgs : JoinGame(c, roomInput)
  \/ \E c \in Conns : JoinRoomDone(c)
  \/ \E c \in Conns : OnDrop(c)
  \/ \E c \in Conns : Receive(c)
  \/ \E c \in Conns : CloseTab(c)

\* server.js: new Server(server, ...) without an adapter option, which is the
\* in-memory adapter
InitMemory == Init /\ adapter = "memory" /\ tab = [c \in Conns |-> NoTab]
Spec == InitMemory /\ [][Next]_vars
\* the handlers on an adapter whose join and fetchSockets settle later
InitRemote == Init /\ adapter = "remote" /\ tab = [c \in Conns |-> NoTab]
SpecAwait == InitRemote /\ [][Next]_vars
\* the server with tabs of the React app as its clients, from the moment the
\* users have closed the username dialog of their tab
InitApp == Init /\ adapter = "memory" /\ tab = [c \in Conns |-> DialogClosed]
SpecApp == InitApp /\ [][NextApp]_vars

\* ------------------------------------------------------------- claims
\* C1: every entry of the rooms store has exactly 1 or 2 participants.
\* (The validation reads room.length, which the room object does not have, so
\* a third joinRoom is admitted.)
C1_RoomHasOneOrTwo ==
  \A i \in 1..Len(rooms) : Len(rooms[i].val.players) \in {1, 2}

\* C2: a joinRoom on a room whose entry has 2 participants ends in the error
\* branch: it answers {error: true, message: 'room is full'}, suspends nothing
\* and leaves the store unchanged.
C2_FullRoomRejected ==
  [][(last'.op = "joinRoom" /\ Len(MapGet(rooms, last'.roomId).players) = 2)
       => /\ pend' = pend
          /\ rooms' = rooms
          /\ last'.cb => resp' = ErrorResp(last'.conn, "room is full")]_vars

C4_NoOrphanRoom ==
  \A i \in 1..Len(rooms) : Live(ParticipantIds(rooms[i].val)) # {}

\* C5: a joinRoom naming a roomId with no entry answers the error 'room does
\* not exist' (to the callback, when there is one), leaves the store and the
\* transport groups unchanged, suspends nothing and emits nothing.
C5_MissingRoomRejected ==
  [][(last'.op = "joinRoom" /\ ~MapHas(rooms, last'.roomId))
       => /\ resp' = IF last'.cb THEN ErrorResp(last'.conn, "room does not exist")
                                 ELSE NoResp
          /\ rooms' = rooms
          /\ group' = group
          /\ pend' = pend
          /\ out' = <<>>
          /\ ~threw']_vars

\* a joinRoom was answered 'room does not exist' for a room that had been
\* created and is gone, while another room is in the store
C5_Witness ==
  /\ last.op = "joinRoom"
  /\ last.roomId \in known
  /\ ~MapHas(rooms, last.roomId)
  /\ rooms # <<>>
  /\ resp = ErrorResp(last.conn, "room does not exist")
\* what the last step emitted to the transport group of room r
EmitsFor(r) == SelectSeq(out, LAMBDA e : e.room = r)

\* C6: a joinRoom that added the joiner to the room delivers exactly one
\* opponentJoined, to the connected participants other than the joiner and to
\* nobody else, carrying the roomId and the full updated participant list.
C6_OpponentJoinedDelivered ==
  last.op = "joinRoomDone"
    => LET room == MapGet(rooms, last.roomId) IN
         out = <<Emit("opponentJoined", last.roomId,
                      Live(ParticipantIds(room)) \ {last.conn},
                      last.roomId, room.players, "", NoPlayer)>>

\* C7: a move sent for room R is emitted once, its payload unchanged, to the
\* connections associated with R other than the sender; these are the connected
\* participants the store records for R, so no connection that is only in
\* another room receives it.
C7_MoveRelay ==
  last.op = "move"
    => /\ out = <<Emit("move", last.roomId, group[last.roomId] \ {last.conn},
                       0, <<>>, last.move, NoPlayer)>>
       /\ out[1].to = Live(ParticipantIds(MapGet(rooms, last.roomId))) \ {last.conn}

\* a move reached the sender's opponent while a participant of another room,
\* who is connected, did not receive it
C7_Witness ==
  /\ last.op = "move"
  /\ out[1].to # {}
  /\ \E i \in 1..Len(rooms) :
       /\ rooms[i].key # last.roomId
       /\ Live(ParticipantIds(rooms[i].val)) \ (out[1].to \cup {last.conn}) # {}

C9_SoleRoomsDeleted ==
  last.op = "disconnect"
    => /\ \A i \in 1..Len(rooms) :
            ~(Len(rooms[i].val.players) = 1 /\ rooms[i].val.players[1].id = last.conn)
       /\ \A d \in last.deleted :
            /\ d.players = <<Find(d.players, last.conn)>>
            /\ EmitsFor(d.roomId) = <<>>

\* a disconnect deleted two rooms at once and emitted nothing
C9_Witness ==
  /\ last.op = "disconnect"
  /\ Cardinality(last.deleted) = 2
  /\ out = <<>>

C11_CloseIdempotent ==
  [][(last'.op \in {"closeRoom", "closeRoomDone"} /\ ~MapHas(rooms, last'.roomId))
       => /\ rooms' = rooms
          /\ group' = group
          /\ ~threw'
          /\ \A i \in 1..Len(out') : out'[i].to = {}]_vars

\* a second closeRoom has completed for a room that was created and then
\* closed by a closeRoom (no connection has disconnected), another room being
\* in the store
C11_Witness ==
  /\ last.op = "closeRoomDone"
  /\ last.roomId \in known
  /\ last.deleted = {}
  /\ \A c \in Conns : sock[c] = "connected"
  /\ rooms # <<>>

\* C12: no socket id appears more than once in the participant list of a room.
\* (joinRoom appends the joiner without looking for it in room.players, so a
\* connection that joins the room it created is recorded twice.)
C12_HandleUnique ==
  \A i \in 1..Len(rooms) :
    LET players == rooms[i].val.players IN
      \A j, k \in 1..Len(players) : players[j].id = players[k].id => j = k

\* C13: each connection is a participant of at most one room of the store.
\* (createRoom and joinRoom never look at the rooms the socket is already in.)
C13_AtMostOneRoom ==
  \A c \in Conns :
    Cardinality({i \in 1..Len(rooms) : c \in ParticipantIds(rooms[i].val)}) <= 1

\* C14: once the entry of a room has 2 participants, every step either leaves
\* its participant list as it is or deletes the entry.
C14_ActiveIsFinal ==
  [][\A i \in 1..Len(rooms) :
       Len(rooms[i].val.players) = 2
         => \/ ~MapHas(rooms', rooms[i].key)
            \/ MapGet(rooms', rooms[i].key).players = rooms[i].val.players]_vars

\* C15: when a joinRoom of one connection has just added it to a room that had
\* 1 participant, and the next event is a joinRoom of another connection for
\* the same room, that second joinRoom is answered 'room is full', suspends
\* nothing and leaves the store unchanged; and no joinRoom drops a participant
\* the store records for the room.
C15_BackToBackJoins ==
  [][/\ (/\ last.op = "joinRoomDone"
          /\ last'.op = "joinRoom"
          /\ last'.roomId = last.roomId
          /\ last'.conn # last.conn
          /\ Len(MapGet(rooms, last.roomId).players) = 2)
          => /\ pend' = pend
             /\ rooms' = rooms
             /\ last'.cb => resp' = ErrorResp(last'.conn, "room is full")
     /\ last'.op = "joinRoomDone"
          => LET before == MapGet(rooms, last'.roomId).players
                 after == MapGet(rooms', last'.roomId).players IN
               /\ Len(after) = Len(before) + 1
               /\ \A i \in 1..Len(before) : after[i] = before[i]]_vars

\* C17: when a step emits opponentJoined for room R, the store entry of R at
\* the moment of the emit is the updated participant list the event carries:
\* it holds the participants recorded before and the joiner.
C17_StoreBeforeNotify ==
  \A i \in 1..Len(out) :
    out[i].event = "opponentJoined"
      => /\ seen = out[i].players
         /\ seen = MapGet(rooms, out[i].room).players
         /\ Len(seen) >= 2
         /\ seen[Len(seen)].id = last.conn

\* an opponentJoined was delivered to the creator of a room that now has two
\* different participants
C17_Witness ==
  /\ last.op = "joinRoomDone"
  /\ Len(out) = 1
  /\ out[1].event = "opponentJoined"
  /\ out[1].to # {}
  /\ Len(seen) = 2
  /\ seen[1].id \in out[1].to

\* C18: a createRoom or joinRoom sent without a callback ends without an error
\* and with the effect of the same event sent with one: the entry is in the
\* store and a join has emitted opponentJoined to the other sockets of the room.
C18_BareEventTolerated ==
  (last.op \in {"createRoomDone", "joinRoomDone"} /\ ~last.cb)
    => /\ ~threw
       /\ MapHas(rooms, last.roomId)
       /\ last.op = "joinRoomDone"
            => LET room == MapGet(rooms, last.roomId) IN
                 out = <<Emit("opponentJoined", last.roomId,
                              group[last.roomId] \ {last.conn},
                              room.roomId, room.players, "", NoPlayer)>>

C20_CreateRoomEffect ==
  [][/\ last'.op = "createRoom"
          => /\ group' = [group EXCEPT ![last'.roomId] = @ \cup {last'.conn}]
             /\ rooms' = rooms
     /\ last'.op = "createRoomDone"
          => /\ rooms' = Append(rooms,
                    [key |-> last'.roomId,
                     val |-> [roomId |-> last'.roomId,
                              players |-> <<[id |-> last'.conn,
                                             username |-> username[last'.conn]]>>]])
             /\ last'.conn \in group'[last'.roomId]
             /\ group' = group
             /\ out' = <<>>
             /\ last'.cb => resp' = [NoResp EXCEPT !.kind = "roomId", !.to = last'.conn,
                                                     !.roomId = last'.roomId]]_vars

\* a connection that had sent its username created a second room of the store
\* and was answered with its roomId
C20_Witness ==
  /\ last.op = "createRoomDone"
  /\ last.cb
  /\ resp.roomId = last.roomId
  /\ Len(rooms) = 2
  /\ rooms[2].key = last.roomId
  /\ rooms[2].val.players[1].username \in Names

C21_JoinAppendsSnapshot ==
  [][(last'.op = "joinRoomDone" /\ Len(MapGet(rooms, last'.roomId).players) = 1)
       => LET before == MapGet(rooms, last'.roomId).players
              after == MapGet(rooms', last'.roomId).players IN
            /\ after = <<before[1], [id |-> last'.conn,
                                     username |-> username[last'.conn]]>>
            /\ last'.conn \in group'[last'.roomId]
            /\ last'.cb => resp' = [NoResp EXCEPT !.kind = "room", !.to = last'.conn,
                                                    !.roomId = last'.roomId,
                                                    !.players = after]]_vars

\* a connection that had sent its username joined the room another
\* connection created and was answered with the two participants
C21_Witness ==
  /\ last.op = "joinRoomDone"
  /\ last.cb
  /\ Len(resp.players) = 2
  /\ resp.players[1].id # last.conn
  /\ resp.players[2].username \in Names

\* C23: a move changes neither the store nor the transport groups, answers
\* nothing and raises no error; when the room it names has no socket other than
\* the sender in its group, it is delivered to no connection.
C23_MoveFrame ==
  [][last'.op = "move"
       => /\ rooms' = rooms
          /\ group' = group
          /\ pend' = pend
          /\ resp' = NoResp
          /\ ~threw'
          /\ (group[last'.roomId] \ {last'.conn} = {})
               => \A i \in 1..Len(out') : out'[i].to = {}]_vars

\* a participant sent a move for its 2-participant room after its peer had
\* disconnected: the sender is alone in the room's group
C23_Witness ==
  /\ last.op = "move"
  /\ group[last.roomId] = {last.conn}
  /\ Len(MapGet(rooms, last.roomId).players) = 2
  /\ out[1].to = {}

\* C24: the disconnect of c leaves every entry that does not list c as it is
\* and emits nothing to those rooms; when no entry lists c, the store is
\* unchanged and nothing is emitted; the handler raises no error.
C24_DisconnectFrame ==
  [][last'.op = "disconnect"
       => /\ \A i \in 1..Len(rooms) :
               last'.conn \notin ParticipantIds(rooms[i].val)
                 => /\ MapGet(rooms', rooms[i].key) = rooms[i].val
                    /\ \A j \in 1..Len(out') : out'[j].room # rooms[i].key
          /\ (\A i \in 1..Len(rooms) : last'.conn \notin ParticipantIds(rooms[i].val))
               => rooms' = rooms /\ out' = <<>>
          /\ ~threw']_vars

\* a connection that is in no room disconnected while the store held a room
C24_Witness ==
  /\ last.op = "disconnect"
  /\ rooms # <<>>
  /\ last.deleted = {}
  /\ out = <<>>
  /\ \A i \in 1..Len(rooms) : last.conn \notin ParticipantIds(rooms[i].val)

\* C25: a username event sets socket.data.username of the sending connection
\* to the name sent and changes nothing else: not the name of another
\* connection, not the store (the names recorded in room entries stay), not the
\* transport groups.
C25_UsernameLocal ==
  [][last'.op = "username"
       => /\ username'[last'.conn] \in Names
          /\ \A c \in Conns \ {last'.conn} : username'[c] = username[c]
          /\ rooms' = rooms
          /\ group' = group
          /\ out' = <<>> /\ resp' = NoResp /\ ~threw']_vars

\* a participant sent a username after it was recorded in a room: the entry
\* still has the name copied when it was recorded
C25_Witness ==
  /\ last.op = "username"
  /\ \E i \in 1..Len(rooms) :
       \E j \in 1..Len(rooms[i].val.players) :
         /\ rooms[i].val.players[j].id = last.conn
         /\ rooms[i].val.players[j].username # username[last.conn]

\* C30: no entry of the store has zero participants, and no joinRoom is
\* answered 'room is empty'.
C30_NoEmptyRoom ==
  /\ \A i \in 1..Len(rooms) : Len(rooms[i].val.players) >= 1
  /\ resp.message # "room is empty"

\* a joinRoom passed the validation on a room of the store after another
\* room had been removed from it
C30_Witness ==
  /\ last.op = "joinRoom"
  /\ MapHas(rooms, last.roomId)
  /\ resp = NoResp
  /\ \E r \in issued : ~MapHas(rooms, r)

\* the place of a move in the game
PlyIndex(move) == CHOOSE n \in 1..Len(Ply) : Ply[n] = move

\* C22: the moves of one sender that wait in the inbox of a tab wait there in
\* the order the sender made them: an earlier half-move is ahead of a later
\* one.
C22_SenderOrder ==
  \A c \in Conns :
    \A i, j \in 1..Len(inbox[c]) :
      (/\ i < j
       /\ inbox[c][i].event = "move" /\ inbox[c][j].event = "move"
       /\ inbox[c][i].from = inbox[c][j].from)
        => PlyIndex(inbox[c][i].move) < PlyIndex(inbox[c][j].move)

\* two moves of the same sender are waiting in the inbox of a tab
C22_Witness ==
  \E c \in Conns :
    \E i, j \in 1..Len(inbox[c]) :
      /\ i < j
      /\ inbox[c][i].event = "move" /\ inbox[c][j].event = "move"
      /\ inbox[c][i].from = inbox[c][j].from

\* C26: when no message is waiting and no handler is suspended, every open
\* tab that shows the game of a room with 2 or more participants holds, in its
\* `players` state, the participant list of that room's entry.
C26_PlayersInSync ==
  (Idle /\ \A c \in Conns : inbox[c] = <<>>)
    => \A c \in Conns :
         (/\ sock[c] = "connected"
          /\ GameShown(c)
          /\ Len(MapGet(rooms, tab[c].room).players) >= 2)
           => tab[c].players = JSArray(MapGet(rooms, tab[c].room).players)

\* C27: a tab emits a move only while its `players` state has 2 or more
\* entries.
C27_NoMoveBeforeOpponent ==
  [][last'.op = "move"
       => JSGte(Length(tab[last'.conn].players), Num(2))]_vars

\* C28: a tab emits a move only when the side to move on its local board is
\* the side of its orientation: "w" for white, "b" for black.
C28_MoveOnOwnTurn ==
  [][last'.op = "move"
       => /\ tab[last'.conn].orientation \in {"white", "black"}
          /\ Turn(game[last'.conn]) = FirstChar(tab[last'.conn].orientation)]_vars

\* a tab that plays black has emitted a move
C28_Witness ==
  /\ last.op = "move"
  /\ tab[last.conn].orientation = "black"
  /\ out[1].to # {}

\* C29: the tab that was answered by createRoom plays white, a tab that was
\* answered by joinRoom plays black, and the open tabs that show the game of
\* the same room have pairwise different orientations.
C29_OrientationsDiffer ==
  /\ \A c \in Conns :
       GameShown(c) => tab[c].orientation \in {"white", "black"}
  /\ \A c, d \in Conns :
       (/\ c # d
        /\ sock[c] = "connected" /\ sock[d] = "connected"
        /\ GameShown(c) /\ GameShown(d)
        /\ tab[c].room = tab[d].room)
         => tab[c].orientation # tab[d].orientation

\* C31: a move is delivered to a connection only when its sender is a
\* participant of the room the move names.
C31_MoveFromParticipant ==
  (last.op = "move" /\ \E i \in 1..Len(out) : out[i].to # {})
    => last.conn \in ParticipantIds(MapGet(rooms, last.roomId))

\* C32: a closeRoom event is delivered to the sockets of a room, and the
\* room's entry is removed by the handler, only when its sender is a
\* participant of that room.
C32_CloseByParticipant ==
  /\ (last.op = "closeRoom" /\ \E i \in 1..Len(out) : out[i].to # {})
       => last.conn \in ParticipantIds(MapGet(rooms, last.roomId))
  /\ last.op = "closeRoomDone"
       => \A d \in last.deleted : last.conn \in ParticipantIds(d)

C34_FailedJoinNotAssociated ==
  [][/\ (last'.op = "joinRoom" /\ resp'.error)
          => /\ group' = group
             /\ rooms' = rooms
             /\ pend' = pend
             /\ out' = <<>>
     /\ \A i \in 1..Len(out') : out'[i].to \subseteq group'[out'[i].room]]_vars

\* a socket that is in the group of one room was refused the join of a room
\* that had existed, and is not in that room's group
C34_Witness ==
  /\ last.op = "joinRoom"
  /\ resp.error /\ resp.to = last.conn
  /\ last.roomId \in known
  /\ last.conn \notin group[last.roomId]
  /\ \E r \in RoomIds : last.conn \in group[r]

\* a move sent to tab c waits to be handled
MoveInFlight(c) == \E i \in 1..Len(inbox[c]) : inbox[c][i].event = "move"

\* C35: two open tabs that show the game of the same room have played the
\* same half-moves on their boards whenever no move is waiting at either of
\* them.
C35_ClientsInStep ==
  \A c, d \in Conns :
    (/\ c # d
     /\ sock[c] = "connected" /\ sock[d] = "connected"
     /\ GameShown(c) /\ GameShown(d)
     /\ tab[c].room = tab[d].room
     /\ ~MoveInFlight(c) /\ ~MoveInFlight(d))
      => game[c] = game[d]
====
